---- MODULE Spec2Model ----
(***************************************************************************)
(* Sortify: recursive, extension-based file sorter (src/app/sorter.py).    *)
(*                                                                         *)
(* File names are strings, paths are sequences of path segments as in      *)
(* pathlib's Path.parts: an absolute path starts with the anchor "/".      *)
(* The filesystem is a map from the paths of regular files to their        *)
(* content plus the set of existing directories.  There are no symlinks.   *)
(***************************************************************************)
EXTENDS Integers, Sequences, FiniteSets, TLC

(***************************************************************************)
(* Bounds of the model.                                                    *)
(***************************************************************************)
\* largest number of regular files in the initial tree
MaxFiles == 3
\* number of sort_files invocations in one session
MaxRuns == 2

(***************************************************************************)
(* str methods used by the sorter.                                         *)
(***************************************************************************)
Char(s, i) == SubSeq(s, i, i)

\* str.lower() on one character
LowerChar(c) ==
    CASE c = "A" -> "a" [] c = "B" -> "b" [] c = "C" -> "c" [] c = "D" -> "d"
      [] c = "E" -> "e" [] c = "F" -> "f" [] c = "G" -> "g" [] c = "H" -> "h"
      [] c = "I" -> "i" [] c = "J" -> "j" [] c = "K" -> "k" [] c = "L" -> "l"
      [] c = "M" -> "m" [] c = "N" -> "n" [] c = "O" -> "o" [] c = "P" -> "p"
      [] c = "Q" -> "q" [] c = "R" -> "r" [] c = "S" -> "s" [] c = "T" -> "t"
      [] c = "U" -> "u" [] c = "V" -> "v" [] c = "W" -> "w" [] c = "X" -> "x"
      [] c = "Y" -> "y" [] c = "Z" -> "z" [] OTHER -> c

RECURSIVE LowerFrom(_, _)
LowerFrom(s, i) ==
    IF i > Len(s) THEN "" ELSE LowerChar(Char(s, i)) \o LowerFrom(s, i + 1)

\* str.lower()
Lower(s) == LowerFrom(s, 1)

\* str.startswith(prefix)
StartsWith(s, prefix) ==
    /\ Len(prefix) <= Len(s)
    /\ SubSeq(s, 1, Len(prefix)) = prefix

RECURSIVE LStripFrom(_, _, _)
LStripFrom(s, c, i) ==
    IF i <= Len(s) /\ Char(s, i) = c THEN LStripFrom(s, c, i + 1)
    ELSE SubSeq(s, i, Len(s))

\* str.lstrip(c) for a one-character c
LStrip(s, c) == LStripFrom(s, c, 1)

RECURSIVE RFindFrom(_, _, _)
RFindFrom(s, c, i) ==
    IF i = 0 THEN 0
    ELSE IF Char(s, i) = c THEN i ELSE RFindFrom(s, c, i - 1)

\* str.rfind(c) + 1: the 1-based position of the last c in s, 0 when absent
RFind(s, c) == RFindFrom(s, c, Len(s))

Digit(d) ==
    CASE d = 0 -> "0" [] d = 1 -> "1" [] d = 2 -> "2" [] d = 3 -> "3"
      [] d = 4 -> "4" [] d = 5 -> "5" [] d = 6 -> "6" [] d = 7 -> "7"
      [] d = 8 -> "8" [] d = 9 -> "9"

RECURSIVE IntStr(_)
\* f"{counter}" for a natural number
IntStr(n) == IF n < 10 THEN Digit(n) ELSE IntStr(n \div 10) \o Digit(n % 10)

(***************************************************************************)
(* pathlib.                                                                *)
(***************************************************************************)
\* PurePath.suffix: name[i:] when the last dot is neither first nor last
Suffix(name) ==
    LET i == RFind(name, ".")
    IN  IF 1 < i /\ i < Len(name) THEN SubSeq(name, i, Len(name)) ELSE ""

\* PurePath.stem
Stem(name) ==
    LET i == RFind(name, ".")
    IN  IF 1 < i /\ i < Len(name) THEN SubSeq(name, 1, i - 1) ELSE name

\* PurePath.name and PurePath.parent
Name(p) == p[Len(p)]
Parent(p) == IF Len(p) <= 1 THEN p ELSE SubSeq(p, 1, Len(p) - 1)

IsAbsolute(p) == Len(p) > 0 /\ p[1] = "/"

\* a / b
Join(a, b) == IF IsAbsolute(b) THEN b ELSE a \o b

RECURSIVE ResolveFrom(_, _, _)
ResolveFrom(p, i, acc) ==
    IF i > Len(p) THEN acc
    ELSE IF p[i] = "." THEN ResolveFrom(p, i + 1, acc)
    ELSE IF p[i] = ".." THEN ResolveFrom(p, i + 1, Parent(acc))
    ELSE ResolveFrom(p, i + 1, Append(acc, p[i]))

\* Path.resolve() of an absolute path in a filesystem without symlinks
Resolve(p) == ResolveFrom(p, 2, <<"/">>)

RECURSIVE PathStrFrom(_, _)
PathStrFrom(p, i) ==
    IF i > Len(p) THEN ""
    ELSE (IF i > 2 THEN "/" ELSE "") \o p[i] \o PathStrFrom(p, i + 1)

\* str(path)
PathStr(p) == PathStrFrom(p, 1)

\* mutant of is_relative_to_path: containment by string prefix
is_relative_to_path_by_string(candidate, other) ==
    StartsWith(PathStr(candidate), PathStr(other))

\* candidate.relative_to(other) succeeds: other is a leading run of whole segments
is_relative_to_path(candidate, other) ==
    /\ Len(other) <= Len(candidate)
    /\ SubSeq(candidate, 1, Len(other)) = other

DEFAULT_CODE_EXTENSIONS ==
    { ".py", ".ipynb", ".pyc", ".pyo",
      ".html", ".css", ".js", ".jsx", ".ts", ".tsx",
      ".java", ".c", ".cpp", ".h", ".hpp", ".cs",
      ".sh", ".bash", ".ps1", ".bat",
      ".json", ".yaml", ".yml", ".xml",
      ".go", ".rs", ".rb", ".php", ".swift", ".kt", ".kts" }

\* src.suffix.lower().lstrip(".") or "no_ext"
ExtKey(name) ==
    LET e == LStrip(Lower(Suffix(name)), ".")
    IN  IF e = "" THEN "no_ext" ELSE e

(***************************************************************************)
(* The filesystem: f maps the path of every regular file to its content,   *)
(* d is the set of directories.                                            *)
(***************************************************************************)
Prefixes(p) == { SubSeq(p, 1, k) : k \in 1..Len(p) }

\* Path.exists()
Exists(p, f, d) == p \in DOMAIN f \/ p \in d

\* Path.is_file()
IsFile(p, f) == p \in DOMAIN f

\* Path.is_dir()
IsDir(p, d) == p \in d

\* Path.mkdir(parents=True, exist_ok=True): the exception it raises, if any
MkdirError(p, f) ==
    IF p \in DOMAIN f THEN "FileExistsError"
    ELSE IF \E q \in Prefixes(p) : q \in DOMAIN f THEN "NotADirectoryError"
    ELSE "none"

\* Path.mkdir(parents=True, exist_ok=True): the directories afterwards
Mkdir(p, f, d) == IF MkdirError(p, f) = "none" THEN d \cup Prefixes(p) ELSE d

\* p, a path below src, after src has become dest
Rebased(p, src, dest) == dest \o SubSeq(p, Len(src) + 1, Len(p))

\* mutant of shutil_move: a regular file is copied and never removed
shutil_copy(src, dest, f, d) ==
    IF src \in DOMAIN f
    THEN [files |-> [p \in DOMAIN f \cup {dest} |-> IF p = dest THEN f[src] ELSE f[p]],
          dirs |-> d, err |-> "none"]
    ELSE [files |-> f, dirs |-> d, err |-> "FileNotFoundError"]

\* shutil.move(str(src), str(dest)) to a path that does not exist: a regular
\* file is renamed, a directory is renamed with all below it, a missing
\* source raises
shutil_move(src, dest, f, d) ==
    IF src \in DOMAIN f
    THEN [files |-> [p \in (DOMAIN f \ {src}) \cup {dest} |->
                       IF p = dest THEN f[src] ELSE f[p]],
          dirs |-> d, err |-> "none"]
    ELSE IF src \in d
    THEN IF Len(src) <= Len(dest) /\ SubSeq(dest, 1, Len(src)) = src
         THEN [files |-> f, dirs |-> d, err |-> "Error"]
         ELSE LET below(p) == Len(src) <= Len(p) /\ SubSeq(p, 1, Len(src)) = src
                  kept     == { p \in DOMAIN f : ~below(p) }
                  moved    == { p \in DOMAIN f : below(p) }
              IN  [files |-> [q \in kept \cup { Rebased(p, src, dest) : p \in moved } |->
                                IF q \in kept THEN f[q]
                                ELSE f[CHOOSE p \in moved : Rebased(p, src, dest) = q]],
                   dirs |-> { IF below(p) THEN Rebased(p, src, dest) ELSE p : p \in d },
                   err |-> "none"]
    ELSE [files |-> f, dirs |-> d, err |-> "FileNotFoundError"]

(***************************************************************************)
(* SortConfig.                                                             *)
(***************************************************************************)
\* SortConfig.root_path
root_path(cfg) == Resolve(cfg.root)

\* SortConfig.destination_root
destination_root(cfg) ==
    IF IsAbsolute(cfg.dest_dir) THEN Resolve(cfg.dest_dir)
    ELSE Resolve(Join(root_path(cfg), cfg.dest_dir))

(***************************************************************************)
(* iter_files.                                                             *)
(***************************************************************************)
\* mutant of is_root_readme: the name is compared case-sensitively
is_root_readme_case_sensitive(path, root) ==
    Resolve(Parent(path)) = root /\ Name(path) = "readme.md"

\* the root README is preserved
is_root_readme(path, root) ==
    Resolve(Parent(path)) = root /\ Lower(Name(path)) = "readme.md"

\* the directories of current_dir that os.walk goes on to visit
kept_dirnames(current_dir, dest_root, dest_is_root, d) ==
    { sub \in { x \in d : Len(x) = Len(current_dir) + 1 /\ Parent(x) = current_dir } :
        \/ dest_is_root
        \/ /\ ~is_relative_to_path(Resolve(sub), dest_root)
           /\ Resolve(sub) # dest_root }

\* the filters applied to one file of the walk: TRUE when the path is yielded
yields(path, root, dest_root, include_dotfiles, include_code, f) ==
    LET dest_is_root == dest_root = root
    IN  /\ include_dotfiles \/ ~StartsWith(Name(path), ".")
        /\ include_code \/ Lower(Suffix(Name(path))) \notin DEFAULT_CODE_EXTENSIONS
        /\ ~is_root_readme(path, root)
        /\ dest_is_root \/ ~is_relative_to_path(Resolve(path), dest_root)
        /\ ~dest_is_root
             \/ Resolve(Parent(path)) # Resolve(Append(dest_root, ExtKey(Name(path))))
        /\ IsFile(path, f)

RECURSIVE walk_dirs(_, _, _, _)
\* every directory os.walk visits below (and including) top
walk_dirs(top, dest_root, dest_is_root, d) ==
    {top} \cup UNION { walk_dirs(sub, dest_root, dest_is_root, d) :
                         sub \in kept_dirnames(top, dest_root, dest_is_root, d) }

RECURSIVE Orders(_)
\* the orders in which os.scandir may list the entries S
Orders(S) ==
    IF S = {} THEN { <<>> }
    ELSE UNION { { <<x>> \o rest : rest \in Orders(S \ {x}) } : x \in S }

RECURSIVE walk_files(_, _, _, _, _, _, _)
RECURSIVE walk_subdirs(_, _, _, _, _, _, _)
\* the lists iter_files can yield below top: the files of top in listing order,
\* then the lists of its kept directories, one after the other
walk_files(top, root, dest_root, include_dotfiles, include_code, f, d) ==
    LET here == { p \in DOMAIN f :
                    /\ Len(p) = Len(top) + 1 /\ Parent(p) = top
                    /\ yields(p, root, dest_root, include_dotfiles, include_code, f) }
        subs == kept_dirnames(top, dest_root, dest_root = root, d)
    IN  { a \o b : a \in Orders(here),
                   b \in walk_subdirs(subs, root, dest_root,
                                      include_dotfiles, include_code, f, d) }

walk_subdirs(subs, root, dest_root, include_dotfiles, include_code, f, d) ==
    IF subs = {} THEN { <<>> }
    ELSE UNION { { a \o b :
                     a \in walk_files(s, root, dest_root,
                                      include_dotfiles, include_code, f, d),
                     b \in walk_subdirs(subs \ {s}, root, dest_root,
                                        include_dotfiles, include_code, f, d) } :
                 s \in subs }

\* list(iter_files(root, dest_root, ...)): every list the walk can produce
iter_files(root, dest_root, include_dotfiles, include_code, f, d) ==
    walk_files(Resolve(root), Resolve(root), Resolve(dest_root),
               include_dotfiles, include_code, f, d)

(***************************************************************************)
(* safe_destination and move_file.                                         *)
(***************************************************************************)
RECURSIVE bumped_destination(_, _, _, _, _, _)
\* the while loop of safe_destination, entered with the given counter
bumped_destination(dest_dir, stem, suffix, counter, f, d) ==
    LET bumped == Append(dest_dir, stem \o " (" \o IntStr(counter) \o ")" \o suffix)
    IN  IF ~Exists(bumped, f, d) THEN bumped
        ELSE bumped_destination(dest_dir, stem, suffix, counter + 1, f, d)

\* mutant of safe_destination: the candidate is returned without looking
unsafe_destination(dest_dir, filename, f, d) == Append(dest_dir, filename)

safe_destination(dest_dir, filename, f, d) ==
    LET candidate == Append(dest_dir, filename)
    IN  IF ~Exists(candidate, f, d) THEN candidate
        ELSE bumped_destination(dest_dir, Stem(filename), Suffix(filename), 1, f, d)

\* mutant of bucket_dir: every file goes straight into the destination root
bucket_dir_flat(dest_root, src) == dest_root

\* dest_root / ext
bucket_dir(dest_root, src) == Append(dest_root, ExtKey(Name(src)))

NoLine == [kind |-> "none"]

\* move_file(src, dest_root, dry_run) on the filesystem (f, d): the filesystem
\* afterwards, the line printed, the path returned and the exception raised
move_file(src, dest_root, dry_run, f, d) ==
    LET dest_dir == bucket_dir(dest_root, src)
        mkerr    == MkdirError(dest_dir, f)
        d1       == Mkdir(dest_dir, f, d)
        dest     == safe_destination(dest_dir, Name(src), f, d1)
    IN  IF mkerr # "none"
        THEN [files |-> f, dirs |-> d, out |-> NoLine, ret |-> <<>>, err |-> mkerr]
        ELSE IF Resolve(Parent(src)) = Resolve(dest_dir)
        THEN [files |-> f, dirs |-> d1,
              out |-> [kind |-> "skip", src |-> src, dest |-> src],
              ret |-> src, err |-> "none"]
        ELSE IF dry_run
        THEN [files |-> f, dirs |-> d1,
              out |-> [kind |-> "dry", src |-> src, dest |-> dest],
              ret |-> dest, err |-> "none"]
        ELSE LET m == shutil_move(src, dest, f, d1)
             IN  [files |-> m.files, dirs |-> m.dirs,
                  out |-> [kind |-> "move", src |-> src, dest |-> dest],
                  ret |-> IF m.err = "none" THEN dest ELSE <<>>, err |-> m.err]

(***************************************************************************)
(* sort_files, up to the loop over the files.                              *)
(***************************************************************************)
\* mutant of sort_files_begin: the destination root is created before the
\* root is validated
sort_files_begin_mkdir_first(cfg, f, d) ==
    LET root      == root_path(cfg)
        dest_root == destination_root(cfg)
        mkerr     == MkdirError(dest_root, f)
        d1        == Mkdir(dest_root, f, d)
    IN  IF mkerr # "none"
        THEN [err |-> mkerr, dirs |-> d, walked |-> {}, lists |-> { <<>> }]
        ELSE IF ~(Exists(root, f, d1) /\ IsDir(root, d1))
        THEN [err |-> "SystemExit", dirs |-> d1, walked |-> {}, lists |-> { <<>> }]
        ELSE [err |-> "none", dirs |-> d1,
              walked |-> walk_dirs(root, dest_root, dest_root = root, d1),
              lists |-> iter_files(root, dest_root, cfg.include_dotfiles,
                                   cfg.include_code, f, d1)]

\* the exception raised, the directories afterwards, the directories the walk
\* visited and the lists `files` can be
sort_files_begin(cfg, f, d) ==
    LET root      == root_path(cfg)
        dest_root == destination_root(cfg)
        mkerr     == MkdirError(dest_root, f)
        d1        == Mkdir(dest_root, f, d)
    IN  IF ~(Exists(root, f, d) /\ IsDir(root, d))
        THEN [err |-> "SystemExit", dirs |-> d, walked |-> {}, lists |-> { <<>> }]
        ELSE IF mkerr # "none"
        THEN [err |-> mkerr, dirs |-> d, walked |-> {}, lists |-> { <<>> }]
        ELSE [err |-> "none", dirs |-> d1,
              walked |-> walk_dirs(root, dest_root, dest_root = root, d1),
              lists |-> iter_files(root, dest_root, cfg.include_dotfiles,
                                   cfg.include_code, f, d1)]

RECURSIVE dry_run_lines(_, _, _, _, _)
\* the lines the for loop prints from position i on when dry_run is set
dry_run_lines(list, i, dest_root, f, d) ==
    IF i > Len(list) THEN <<>>
    ELSE LET r == move_file(list[i], dest_root, TRUE, f, d)
         IN  IF r.err # "none" THEN <<>>
             ELSE <<r.out>> \o dry_run_lines(list, i + 1, dest_root, r.files, r.dirs)

(***************************************************************************)
(* The inputs: the working tree, the command line.                         *)
(***************************************************************************)
WorkDir == <<"/", "w">>

\* the files a working tree is drawn from, relative to WorkDir
TreeFiles ==
    { <<"b.TXT">>, <<"sub", "x.txt">>, <<".secret">>, <<"notes.py">>,
      <<"README.md">>, <<"sub", "README.md">>, <<"a.">>, <<"sub", "a.">>,
      <<"txt">>, <<"sorted", "txt", "x.txt">>, <<"sorted2", "x.txt">> }

\* a tree: no file lies below another file
IsTree(S) ==
    \A p \in S : \A q \in S : p = q \/ ~is_relative_to_path(q, p)

Trees ==
    { { WorkDir \o p : p \in S } :
        S \in { T \in SUBSET TreeFiles : Cardinality(T) <= MaxFiles /\ IsTree(T) } }

\* the root argument: the working directory, or a path that is a regular
\* file or missing
Roots == { WorkDir, WorkDir \o <<"notes.py">> }

\* --dest-dir: in place, nested in the root, the parent of the root, elsewhere
DestDirs == { <<>>, <<"sorted">>, <<"..">>, <<"/", "out">> }

(***************************************************************************)
(* The state machine: a session of sort_files invocations on one tree.     *)
(***************************************************************************)
VARIABLES
    files,    \* path of every regular file |-> its content
    dirs,     \* the directories
    config,   \* the SortConfig every invocation of the session is given
    pc,       \* "idle", "moving", "done", "failed"
    err,      \* the exception that ended the invocation, or "none"
    cands,    \* `files` of sort_files: the list iter_files yielded
    idx,      \* the position of the for loop in cands
    report,   \* the lines move_file printed in this invocation
    walked,   \* the directories os.walk visited in this invocation
    files0,   \* files when the current invocation started
    dirs0,    \* dirs when the current invocation started
    preview,  \* the lines a dry run prints for cands on the filesystem the loop starts in
    runs      \* the completed invocations: their config and number of moves

vars == <<files, dirs, config, pc, err, cands, idx, report, walked,
          files0, dirs0, preview, runs>>

Init ==
    /\ \E t \in Trees :
         /\ files = [p \in t |-> p]
         /\ dirs = Prefixes(WorkDir) \cup UNION { Prefixes(Parent(p)) : p \in t }
    /\ \E r \in Roots, dd \in DestDirs,
          dot \in BOOLEAN, code \in BOOLEAN, dry \in BOOLEAN :
         config = [root |-> r, dest_dir |-> dd, include_dotfiles |-> dot,
                   include_code |-> code, dry_run |-> dry]
    /\ pc = "idle"
    /\ err = "none"
    /\ cands = <<>>
    /\ idx = 1
    /\ report = <<>>
    /\ walked = {}
    /\ files0 = files
    /\ dirs0 = dirs
    /\ preview = <<>>
    /\ runs = <<>>

\* what is kept of a completed invocation
RunRecord(cfg, lines) ==
    [config |-> cfg,
     moved |-> Cardinality({ i \in 1..Len(lines) : lines[i].kind = "move" })]

\* sort_files(config) up to the for loop
StartRun ==
    /\ pc \in {"idle", "done"}
    /\ Len(runs) < MaxRuns
    /\ \E b \in { sort_files_begin(config, files, dirs) } :
       \E list \in b.lists :
           /\ files0' = files
           /\ dirs0' = dirs
           /\ dirs' = b.dirs
           /\ walked' = b.walked
           /\ err' = b.err
           /\ cands' = list
           /\ preview' = dry_run_lines(list, 1, destination_root(config), files, b.dirs)
           /\ pc' = IF b.err # "none" THEN "failed"
                    ELSE IF list = <<>> THEN "done" ELSE "moving"
           /\ runs' = IF b.err = "none" /\ list = <<>>
                      THEN Append(runs, RunRecord(config, <<>>))
                      ELSE runs
           /\ idx' = 1
           /\ report' = <<>>
           /\ UNCHANGED <<files, config>>

\* one iteration of the for loop: move_file(path, dest_root, dry_run)
MoveStep ==
    /\ pc = "moving"
    /\ idx <= Len(cands)
    /\ \E r \in { move_file(cands[idx], destination_root(config), config.dry_run,
                            files, dirs) } :
       \E lines \in { IF r.out = NoLine THEN report ELSE Append(report, r.out) } :
           /\ files' = r.files
           /\ dirs' = r.dirs
           /\ report' = lines
           /\ err' = r.err
           /\ idx' = IF r.err = "none" THEN idx + 1 ELSE idx
           /\ pc' = IF r.err # "none" THEN "failed"
                    ELSE IF idx = Len(cands) THEN "done" ELSE "moving"
           /\ runs' = IF r.err = "none" /\ idx = Len(cands)
                      THEN Append(runs, RunRecord(config, lines))
                      ELSE runs
    /\ UNCHANGED <<config, cands, walked, files0, dirs0, preview>>

\* an external actor removes a file that is listed and not yet moved
Vanish ==
    /\ pc = "moving"
    /\ \E i \in idx..Len(cands) :
         /\ cands[i] \in DOMAIN files
         /\ files' = [p \in DOMAIN files \ {cands[i]} |-> files[p]]
    /\ UNCHANGED <<dirs, config, pc, err, cands, idx, report, walked,
                   files0, dirs0, preview, runs>>

Next ==
    \/ StartRun
    \/ MoveStep

Spec == Init /\ [][Next]_vars

NextRace == Next \/ Vanish

\* the session with an external actor removing files
SpecRace == Init /\ [][NextRace]_vars

(***************************************************************************)
(* Vocabulary of the properties.                                           *)
(***************************************************************************)
Root == root_path(config)
Dest == destination_root(config)

\* p is q or lies below q, segment by segment
InTree(p, q) == Len(q) <= Len(p) /\ \A i \in 1..Len(q) : p[i] = q[i]

Listed(p) == \E i \in 1..Len(cands) : cands[i] = p

\* the paths that now hold the content c
Holders(c) == { q \in DOMAIN files : files[q] = c }

\* "name (n).ext"
Numbered(name, n) == Stem(name) \o " (" \o IntStr(n) \o ")" \o Suffix(name)

\* the source -> target pairs of printed lines
Pairs(lines) == [i \in 1..Len(lines) |-> <<lines[i].src, lines[i].dest>>]

LivePassDone == pc = "done" /\ ~config.dry_run

\* the lines of a dry-run invocation are the preview of its list
PreviewIsDryRun == (pc = "done" /\ config.dry_run) => report = preview

(***************************************************************************)
(* C1: after a live pass has completed, every file the filters let         *)
(* through lies directly in destination_root/<key>, <key> being its        *)
(* original extension lower-cased without the dot ("no_ext" without an     *)
(* extension), and every file filtered out is still at its original path.  *)
(* With the default flags b.TXT and sub/x.txt both end in txt/, while      *)
(* .secret, notes.py and the root README.md are not listed.                *)
(***************************************************************************)
C1_SortedByExtension ==
    LivePassDone =>
        /\ \A p \in DOMAIN files0 :
             IF Listed(p)
             THEN \E q \in Holders(files0[p]) :
                    /\ Holders(files0[p]) = {q}
                    /\ Parent(q) = Append(Dest, ExtKey(Name(p)))
             ELSE p \in DOMAIN files /\ files[p] = files0[p]
        /\ \A p \in { WorkDir \o <<"b.TXT">>, WorkDir \o <<"sub", "x.txt">> } :
             Listed(p) => \E q \in Holders(files0[p]) : Parent(q) = Append(Dest, "txt")
        /\ ~config.include_dotfiles => ~Listed(WorkDir \o <<".secret">>)
        /\ ~config.include_code => ~Listed(WorkDir \o <<"notes.py">>)
        /\ ~Listed(Root \o <<"README.md">>)

C1_Witness ==
    /\ LivePassDone
    /\ Dest = WorkDir \o <<"sorted">>
    /\ Holders(WorkDir \o <<"b.TXT">>) = { Dest \o <<"txt", "b.TXT">> }
    /\ Holders(WorkDir \o <<"sub", "x.txt">>) = { Dest \o <<"txt", "x.txt">> }
    /\ Holders(WorkDir \o <<"notes.py">>) = { WorkDir \o <<"notes.py">> }

(***************************************************************************)
(* C2: move_file never overwrites.  A live move leaves every other file    *)
(* at its path with its content; when name.ext already exists in the       *)
(* bucket the arriving file is stored as "name (n).ext" for the smallest   *)
(* n >= 1 whose name did not exist there.  Two candidates named x.txt of   *)
(* one run, with neither x.txt nor "x (1).txt" in the bucket before, end   *)
(* up as x.txt and "x (1).txt".                                            *)
(***************************************************************************)
C2_MoveStepNeverOverwrites ==
    (pc = "moving" /\ ~config.dry_run /\ idx' = idx + 1) =>
        LET src    == cands[idx]
            bucket == Append(Dest, ExtKey(Name(src)))
            plain  == Append(bucket, Name(src))
        IN  /\ \A p \in DOMAIN files \ {src} :
                 p \in DOMAIN files' /\ files'[p] = files[p]
            /\ \E q \in DOMAIN files' \ DOMAIN files :
                 /\ files'[q] = files[src]
                 /\ plain \in DOMAIN files =>
                      \E n \in 1..(Cardinality(DOMAIN files) + Cardinality(dirs) + 1) :
                        /\ q = Append(bucket, Numbered(Name(src), n))
                        /\ \A m \in 1..(n - 1) :
                             LET taken == Append(bucket, Numbered(Name(src), m))
                             IN  taken \in DOMAIN files \/ taken \in dirs

C2_TwoOfOneName ==
    LET xs     == { p \in DOMAIN files0 : Listed(p) /\ Name(p) = "x.txt" }
        bucket == Append(Dest, "txt")
        first  == Append(bucket, "x.txt")
        second == Append(bucket, "x (1).txt")
    IN  ( /\ LivePassDone
          /\ Cardinality(xs) = 2
          /\ first \notin DOMAIN files0 /\ first \notin dirs0
          /\ second \notin DOMAIN files0 /\ second \notin dirs0 )
        => /\ first \in DOMAIN files /\ second \in DOMAIN files
           /\ { files[first], files[second] } = { files0[p] : p \in xs }

\* C2: every live move keeps the files already there and numbers the arriving
\* file, and two candidates of one name end up as x.txt and "x (1).txt"
C2_NoOverwrite == [][C2_MoveStepNeverOverwrites]_vars /\ []C2_TwoOfOneName

C2_Witness ==
    LET bucket == WorkDir \o <<"sorted", "txt">>
    IN  /\ LivePassDone
        /\ Dest = WorkDir \o <<"sorted">>
        /\ Append(bucket, "x.txt") \in DOMAIN files0
        /\ Holders(Append(bucket, "x.txt")) = { Append(bucket, "x.txt") }
        /\ Holders(WorkDir \o <<"sub", "x.txt">>) = { Append(bucket, "x (1).txt") }
        /\ Holders(WorkDir \o <<"sorted2", "x.txt">>) = { Append(bucket, "x (2).txt") }

(***************************************************************************)
(* C3: no data loss.  In every state of a live pass, and at its end, the   *)
(* number of regular files is the number before the pass, and every        *)
(* original file exists exactly once: unchanged at its original path, or   *)
(* at the target of its move.                                              *)
(***************************************************************************)
C3_NoDataLoss ==
    (~config.dry_run /\ pc \in {"moving", "done", "failed"}) =>
        /\ Cardinality(DOMAIN files) = Cardinality(DOMAIN files0)
        /\ \A p \in DOMAIN files0 :
             /\ Cardinality(Holders(files0[p])) = 1
             /\ \/ p \in DOMAIN files /\ files[p] = files0[p]
                \/ \E i \in 1..Len(report) :
                     /\ report[i].kind = "move" /\ report[i].src = p
                     /\ Holders(files0[p]) = { report[i].dest }

C3_Witness ==
    /\ ~config.dry_run
    /\ pc = "moving"
    /\ idx = 3
    /\ \A i \in 1..2 : cands[i] \notin DOMAIN files
    /\ cands[3] \in DOMAIN files

(***************************************************************************)
(* C4: idempotence in place.  When the destination root is the source      *)
(* root and a live pass follows a completed live pass with the same        *)
(* configuration, the second pass moves nothing and leaves the filesystem  *)
(* as the first left it.                                                   *)
(***************************************************************************)
C4_SecondPassMovesNothing ==
    (LivePassDone /\ Dest = Root /\ Len(runs) >= 2) =>
        /\ runs[Len(runs)].moved = 0
        /\ files = files0
        /\ dirs = dirs0

(***************************************************************************)
(* C5: destination self-exclusion.  With the destination root strictly     *)
(* inside the source root, the walk visits no directory of the             *)
(* destination tree and iter_files yields no file of it; containment is by *)
(* whole segments, so every other directory below the root is visited.     *)
(***************************************************************************)
C5_DestinationExcluded ==
    (pc \in {"moving", "done"} /\ Dest # Root /\ InTree(Dest, Root)) =>
        /\ Root \in walked
        /\ \A w \in walked : ~InTree(w, Dest)
        /\ \A i \in 1..Len(cands) : ~InTree(cands[i], Dest)
        /\ \A w \in dirs : (InTree(w, Root) /\ ~InTree(w, Dest)) => w \in walked

C5_Witness ==
    /\ pc = "moving"
    /\ Dest = WorkDir \o <<"sorted">>
    /\ WorkDir \o <<"sorted", "txt", "x.txt">> \in DOMAIN files0
    /\ WorkDir \o <<"sorted2">> \in walked
    /\ Listed(WorkDir \o <<"sorted2", "x.txt">>)

(***************************************************************************)
(* C6: a completed dry-run pass leaves the set of files and the set of     *)
(* directories, destination root and buckets included, as they were.       *)
(***************************************************************************)
C6_DryRunTouchesNothing ==
    (pc = "done" /\ config.dry_run) => (files = files0 /\ dirs = dirs0)

(***************************************************************************)
(* C7: README protection.  For every flag combination and destination, a   *)
(* file directly in the source root named "readme.md" in any case is never *)
(* yielded and stays where it is; a file of that name in a subdirectory is *)
(* yielded unless it lies in the destination tree or rests in its bucket.  *)
(***************************************************************************)
C7_ReadmeProtected ==
    pc \in {"moving", "done", "failed"} =>
        \A p \in DOMAIN files0 :
            (InTree(p, Root) /\ Lower(Name(p)) = "readme.md") =>
                IF Len(p) = Len(Root) + 1
                THEN ~Listed(p) /\ p \in DOMAIN files /\ files[p] = files0[p]
                ELSE ( /\ pc \in {"moving", "done"}
                       /\ Dest # Root => ~InTree(p, Dest)
                       /\ Dest = Root => Parent(p) # Append(Dest, "md") )
                     => Listed(p)

C7_Witness ==
    /\ LivePassDone
    /\ config.include_dotfiles /\ config.include_code
    /\ Dest = Root
    /\ Holders(WorkDir \o <<"README.md">>) = { WorkDir \o <<"README.md">> }
    /\ Holders(WorkDir \o <<"sub", "README.md">>) = { WorkDir \o <<"md", "README.md">> }
    /\ Holders(WorkDir \o <<"notes.py">>) = { WorkDir \o <<"py", "notes.py">> }

(***************************************************************************)
(* C8: invalid root.  When the source root is missing or is not a          *)
(* directory, sort_files ends in SystemExit and the filesystem is as it    *)
(* was: no directory created, no file moved.                               *)
(***************************************************************************)
C8_InvalidRootFailsClean ==
    (pc # "idle" /\ Root \notin dirs0) =>
        /\ pc = "failed" /\ err = "SystemExit"
        /\ files = files0 /\ dirs = dirs0

C8_Witness ==
    /\ pc = "failed" /\ err = "SystemExit"
    /\ Root \in DOMAIN files
    /\ Dest = Root \o <<"sorted">>

(***************************************************************************)
(* C9: a candidate removed by an external actor between listing and move   *)
(* is skipped; the run never ends in an error because of it.               *)
(***************************************************************************)
C9_VanishedFileIsSkipped ==
    ~(pc = "failed" /\ err = "FileNotFoundError")

(***************************************************************************)
(* C10: dry run is a faithful preview.  The source -> target pairs a live  *)
(* pass realizes are the pairs a dry-run pass reports for the same list on *)
(* the same initial filesystem (stated for the dry runs that report every  *)
(* candidate).                                                             *)
(***************************************************************************)
C10_DryRunIsFaithfulPreview ==
    (LivePassDone /\ Len(preview) = Len(cands)) => Pairs(report) = Pairs(preview)
====
